---- MODULE Spec2Model ----
(***************************************************************************)
(* Model of next.config.js of the nwb-one-blog repository: the analyzer    *)
(* toggle read at module load, the redirect table returned by redirects(), *)
(* and the webpack customisation (two module rules and the preact aliases).*)
(*                                                                         *)
(* Text (paths, URLs, file names, templates) is a string; prefixes,        *)
(* suffixes and regular expressions are computed character by character    *)
(* with Len, SubSeq, Head, Tail and \o.                                    *)
(***************************************************************************)
EXTENDS Integers, Sequences, FiniteSets, TLC

VARIABLES
    env,              \* process.env.ANALYZE: [defined, value]
    analyzerEnabled,  \* the `enabled` option handed to @next/bundle-analyzer at load
    routes,           \* the redirect table the routing layer holds (<<>> before it is loaded)
    config,           \* the webpack config object of the current compilation: [rules, alias]
    calls,            \* how many times the customisation ran on this config object
    last              \* the most recent operation and what it produced

vars == <<env, analyzerEnabled, routes, config, calls, last>>

---------------------------------------------------------------------------
(* Bounds *)

\* The webpack customisation runs at most MaxCalls times on one config object.
MaxCalls == 1

\* A client follows at most MaxHops redirects in a row.
MaxHops == 2

---------------------------------------------------------------------------
(* Text helpers *)

\* the i-th character of s
Char(s, i) == SubSeq(s, i, i)

StartsWith(s, p) ==
    /\ Len(p) <= Len(s)
    /\ SubSeq(s, 1, Len(p)) = p

EndsWith(s, p) ==
    /\ Len(p) <= Len(s)
    /\ SubSeq(s, Len(s) - Len(p) + 1, Len(s)) = p

\* p occurs in s at position i
OccursAt(s, p, i) ==
    /\ i >= 1
    /\ i + Len(p) - 1 <= Len(s)
    /\ SubSeq(s, i, i + Len(p) - 1) = p

Contains(s, p) == \E i \in 1..(Len(s) + 1) : OccursAt(s, p, i)

---------------------------------------------------------------------------
(* process.env.ANALYZE and the analyzer toggle *)

Undefined == [defined |-> FALSE, value |-> ""]

Str(v) == [defined |-> TRUE, value |-> v]

EnvValues == {Undefined, Str("true"), Str("TRUE"), Str("1"), Str("")}

\* mutant: the toggle read for truthiness instead of compared with 'true'
AnalyzeEnabledTruthy(e) == e.defined /\ e.value # ""

\* process.env.ANALYZE === 'true'
AnalyzeEnabled(e) == e.defined /\ e.value = "true"

---------------------------------------------------------------------------
(* redirects() *)

RedirectTable ==
    << [source      |-> "/blog/auditing-dotnet-entity-framework-core",
        destination |-> "https://minimalizt.dev/blog/auditing-dotnet-entity-framework-core/",
        permanent   |-> TRUE],
       [source      |-> "/blog/difference-between-datetime-now-utcnow",
        destination |-> "https://minimalizt.dev/blog/difference-between-datetime-now-utcnow/",
        permanent   |-> TRUE],
       [source      |-> "/blog/entity-framework-query-filters-per-request-configuration",
        destination |-> "https://minimalizt.dev/blog/entity-framework-query-filters-per-request-configuration/",
        permanent   |-> TRUE],
       [source      |-> "/blog/exception-filter-attribute-dotnet",
        destination |-> "https://minimalizt.dev/blog/exception-filter-attribute-dotnet/",
        permanent   |-> TRUE],
       [source      |-> "/blog/linq-extensions-pagination-order-by-property-name",
        destination |-> "https://minimalizt.dev/blog/linq-extensions-pagination-order-by-property-name/",
        permanent   |-> TRUE],
       [source      |-> "/blog/openid-connect-dotnet-5",
        destination |-> "https://minimalizt.dev/blog/openid-connect-dotnet-5/",
        permanent   |-> TRUE],
       [source      |-> "/blog/set-up-automapper-dotnet-core",
        destination |-> "https://minimalizt.dev/blog/set-up-automapper-dotnet-core/",
        permanent   |-> TRUE],
       [source      |-> "/blog/swagger-api-versioning-dotnet-core",
        destination |-> "https://minimalizt.dev/blog/swagger-api-versioning-dotnet-core/",
        permanent   |-> TRUE] >>

\* mutant: the second entry pasted from the first with its source left unchanged
redirectsDuplicateSource ==
    [RedirectTable EXCEPT ![2].source = RedirectTable[1].source]

\* mutant: one entry left temporary
redirectsOneTemporary ==
    [RedirectTable EXCEPT ![4].permanent = FALSE]

\* mutant: the order of the returned array depends on whether the
\* customisation has run
redirectsOrderDependsOnCalls ==
    IF calls = 0
    THEN RedirectTable
    ELSE [i \in 1..Len(RedirectTable) |-> RedirectTable[Len(RedirectTable) + 1 - i]]

\* mutant: one destination written without its trailing slash
redirectsNoTrailingSlash ==
    [RedirectTable EXCEPT ![6].destination = "https://minimalizt.dev/blog/openid-connect-dotnet-5"]

\* mutant: one destination's slug shortened
redirectsSlugChanged ==
    [RedirectTable EXCEPT ![6].destination = "https://minimalizt.dev/blog/openid-connect-dotnet/"]

\* mutant: one source's slug misspelt
redirectsSourceTypo ==
    [RedirectTable EXCEPT ![7].source = "/blog/setup-automapper-dotnet-core"]

\* async redirects() { return [...] }
redirects == RedirectTable

\* The named post files under data/blog.
BlogPostFiles ==
    { "swagger-api-versioning-dotnet-core.mdx",
      "set-up-automapper-dotnet-core.mdx",
      "entity-framework-query-filters-per-request-configuration.mdx",
      "linq-extensions-pagination-order-by-property-name.mdx" }

---------------------------------------------------------------------------
(* The routing layer's use of the table: exact comparison of the request   *)
(* path with each entry's source, entries consulted in table order.        *)

\* mutant: a source matched as a prefix of the path
MatchingPrefix(table, path) == {i \in DOMAIN table : StartsWith(path, table[i].source)}

Matching(table, path) == {i \in DOMAIN table : table[i].source = path}

\* index of the first entry whose source is the path, 0 when there is none
Lookup(table, path) ==
    LET m == Matching(table, path)
    IN  IF m = {} THEN 0 ELSE CHOOSE i \in m : \A j \in m : i <= j

Fallthrough == [kind |-> "next"]

Respond(table, path) ==
    LET i == Lookup(table, path)
    IN  IF i = 0
        THEN Fallthrough
        ELSE [kind      |-> "redirect",
              location  |-> table[i].destination,
              permanent |-> table[i].permanent]

Sources == {redirects[i].source : i \in DOMAIN redirects}

\* where :// starts in a URL, 0 when it has none
SchemeEnd(u) ==
    LET at == {i \in 1..Len(u) : OccursAt(u, "://", i)}
    IN  IF at = {} THEN 0 ELSE CHOOSE i \in at : \A j \in at : i <= j

\* what follows scheme:// in an absolute URL
AfterScheme(u) == SubSeq(u, SchemeEnd(u) + 3, Len(u))

FirstSlash(s) ==
    LET at == {i \in 1..Len(s) : Char(s, i) = "/"}
    IN  IF at = {} THEN 0 ELSE CHOOSE i \in at : \A j \in at : i <= j

\* the host of a URL ("" for a relative one)
UrlHost(u) ==
    IF SchemeEnd(u) = 0 THEN ""
    ELSE IF FirstSlash(AfterScheme(u)) = 0 THEN AfterScheme(u)
    ELSE SubSeq(AfterScheme(u), 1, FirstSlash(AfterScheme(u)) - 1)

\* the path a client requests of the host when it follows a redirect to u
UrlPath(u) ==
    IF SchemeEnd(u) = 0 THEN u
    ELSE IF FirstSlash(AfterScheme(u)) = 0 THEN "/"
    ELSE SubSeq(AfterScheme(u), FirstSlash(AfterScheme(u)), Len(AfterScheme(u)))

\* Request paths: every source of the table, and paths near them.
RequestPaths ==
    Sources
    \cup {redirects[i].source \o "/" : i \in {1, 6}}
    \cup {Tail(redirects[i].source) : i \in {1}}
    \cup {"/", "/blog", "/blog/unknown-post", "/about",
          "/blog/openid-connect-dotnet", "/blog/openid-connect-dotnet-50",
          "/Blog/openid-connect-dotnet-5", "/blog/blog/openid-connect-dotnet-5",
          "https://minimalizt.dev/blog/openid-connect-dotnet-5/"}

---------------------------------------------------------------------------
(* Regular expressions, as JavaScript's RegExp.prototype.test evaluates    *)
(* them: a pattern is a sequence of atoms, matched from some start         *)
(* position; "end" is $ without the m flag (end of input only).            *)

Lit(c) == [t |-> "lit", c |-> c, alts |-> {}]

Opt(c) == [t |-> "opt", c |-> c, alts |-> {}]

Alt(alts) == [t |-> "alt", c |-> "", alts |-> alts]

EndOfInput == [t |-> "end", c |-> "", alts |-> {}]

Word(s) == [i \in 1..Len(s) |-> Lit(Char(s, i))]

LowerCase == "abcdefghijklmnopqrstuvwxyz"

UpperCase == "ABCDEFGHIJKLMNOPQRSTUVWXYZ"

\* toUpperCase of each lower-case ASCII letter
ToUpperCase ==
    [c \in {Char(LowerCase, i) : i \in 1..Len(LowerCase)} |->
        Char(UpperCase, CHOOSE i \in 1..Len(LowerCase) : Char(LowerCase, i) = c)]

\* Canonicalize of the i flag: a lower-case ASCII letter maps to its upper case
Canonicalize(c) == IF c \in DOMAIN ToUpperCase THEN ToUpperCase[c] ELSE c

CharMatches(c, d, ignoreCase) ==
    IF ignoreCase THEN Canonicalize(c) = Canonicalize(d) ELSE c = d

\* the positions after a match of atoms that starts at position i of s
RECURSIVE MatchEnds(_, _, _, _)
MatchEnds(atoms, s, i, ignoreCase) ==
    IF atoms = <<>>
    THEN {i}
    ELSE LET a    == Head(atoms)
             rest == Tail(atoms)
             step == IF i <= Len(s) /\ CharMatches(Char(s, i), a.c, ignoreCase)
                     THEN MatchEnds(rest, s, i + 1, ignoreCase)
                     ELSE {}
         IN  CASE a.t = "lit" -> step
               [] a.t = "opt" -> step \cup MatchEnds(rest, s, i, ignoreCase)
               [] a.t = "alt" -> UNION {MatchEnds(alt \o rest, s, i, ignoreCase) : alt \in a.alts}
               [] a.t = "end" -> IF i = Len(s) + 1
                                 THEN MatchEnds(rest, s, i, ignoreCase)
                                 ELSE {}

RegExpTest(re, s) ==
    \E i \in 1..(Len(s) + 1) : MatchEnds(re.atoms, s, i, re.ignoreCase) # {}

---------------------------------------------------------------------------
(* The webpack customisation *)

\* mutant: mp4 left out of the alternatives
FileLoaderTestNoMp4 ==
    [atoms |-> << Lit("."),
                  Alt({ Word("png"),
                        <<Lit("j"), Lit("p"), Opt("e"), Lit("g")>>,
                        Word("gif") }),
                  EndOfInput >>,
     ignoreCase |-> TRUE]

\* /\.(png|jpe?g|gif|mp4)$/i
FileLoaderTest ==
    [atoms |-> << Lit("."),
                  Alt({ Word("png"),
                        <<Lit("j"), Lit("p"), Opt("e"), Lit("g")>>,
                        Word("gif"),
                        Word("mp4") }),
                  EndOfInput >>,
     ignoreCase |-> TRUE]

\* mutant: the $ anchor left out
SvgTestUnanchored ==
    [atoms |-> << Lit("."), Lit("s"), Lit("v"), Lit("g") >>,
     ignoreCase |-> FALSE]

\* mutant: the i flag added
SvgTestIgnoreCase ==
    [atoms |-> << Lit("."), Lit("s"), Lit("v"), Lit("g"), EndOfInput >>,
     ignoreCase |-> TRUE]

\* /\.svg$/
SvgTest ==
    [atoms |-> << Lit("."), Lit("s"), Lit("v"), Lit("g"), EndOfInput >>,
     ignoreCase |-> FALSE]

NoOptions == [publicPath |-> "", name |-> ""]

\* mutant: the [hash] placeholder left out of the name
FileLoaderOptionsNoHash ==
    [publicPath |-> "/_next",
     name       |-> "static/media/[name].[ext]"]

FileLoaderOptions ==
    [publicPath |-> "/_next",
     name       |-> "static/media/[name].[hash].[ext]"]

FileLoaderRule ==
    [test |-> FileLoaderTest,
     use  |-> << [loader |-> "file-loader", options |-> FileLoaderOptions] >>]

SvgrRule ==
    [test |-> SvgTest,
     use  |-> << [loader |-> "@svgr/webpack", options |-> NoOptions] >>]

PreactAliases ==
    [k \in {"react/jsx-runtime.js", "react", "react-dom/test-utils", "react-dom"} |->
        CASE k = "react/jsx-runtime.js" -> "preact/compat/jsx-runtime"
          [] k = "react"                -> "preact/compat"
          [] k = "react-dom/test-utils" -> "preact/test-utils"
          [] k = "react-dom"            -> "preact/compat"]

\* Object.assign(target, source)
ObjectAssign(target, source) ==
    [k \in (DOMAIN target) \cup (DOMAIN source) |->
        IF k \in DOMAIN source THEN source[k] ELSE target[k]]

\* mutant: || in place of &&
ReplaceReactEither(dev, isServer) == ~dev \/ ~isServer

\* mutant: the isServer test left out
ReplaceReactNotDev(dev, isServer) == ~dev

\* if (!dev && !isServer)
ReplaceReact(dev, isServer) == ~dev /\ ~isServer

\* mutant: config.resolve.alias replaced by a new object instead of assigned into
webpackNewAliasObject(cfg, dev, isServer) ==
    [rules |-> Append(Append(cfg.rules, FileLoaderRule), SvgrRule),
     alias |-> IF ReplaceReact(dev, isServer) THEN PreactAliases ELSE cfg.alias]

\* webpack: (config, { dev, isServer }) => { ...; return config }
webpack(cfg, dev, isServer) ==
    LET pushed == Append(Append(cfg.rules, FileLoaderRule), SvgrRule)
    IN  [rules |-> pushed,
         alias |-> IF ReplaceReact(dev, isServer)
                   THEN ObjectAssign(cfg.alias, PreactAliases)
                   ELSE cfg.alias]

---------------------------------------------------------------------------
(* The asset pipeline's use of the rules: a rule applies to a resource     *)
(* when its test matches the resource's path; file-loader emits the file   *)
(* under its interpolated name.                                            *)

\* /\.(js|jsx|mjs)$/ : a rule the framework's own config already holds
BabelRule ==
    [test |-> [atoms |-> << Lit("."),
                            Alt({Word("js"), Word("jsx"), Word("mjs")}),
                            EndOfInput >>,
               ignoreCase |-> FALSE],
     use  |-> << [loader |-> "next-babel-loader", options |-> NoOptions] >>]

NoAliases == [k \in {} |-> ""]

FrameworkAliases ==
    [k \in {"next", "react", "react-dom", "private-next-pages"} |->
        CASE k = "next"               -> "/app/node_modules/next"
          [] k = "react"              -> "/app/node_modules/react"
          [] k = "react-dom"          -> "/app/node_modules/react-dom"
          [] k = "private-next-pages" -> "/app/pages"]

\* The config objects the customisation is handed.
BaseConfigs ==
    { [rules |-> <<>>,          alias |-> NoAliases],
      [rules |-> <<BabelRule>>, alias |-> FrameworkAliases] }

\* The resources the compilation meets: names with a stem and at most a few
\* dots, in lower, upper and mixed case, with and without the extensions of
\* the two added rules.
FileNames ==
    { "logo.png", "photo.jpg", "photo.jpeg", "anim.gif", "clip.mp4",
      "icon.svg",
      "logo.PNG", "photo.Jpeg", "clip.MP4",
      "icon.SVG", "icon.Svg",
      "pic.webp", "song.mp3", "photo.jpe", "photo.jpeeg",
      "logo.pngx", "icon.svgz", "index.js", "logopng", "iconsvg",
      "icon.svg.png", "logo.png.svg", "logo.png.txt", "a.b.gif" }

Contents == {"bytes-1", "bytes-2"}

\* The files the compilation processes: every file name, some with either content.
Assets ==
    {[file |-> f, content |-> "bytes-1"] : f \in FileNames}
    \cup {[file |-> f, content |-> "bytes-2"] : f \in {"logo.png", "icon.svg", "clip.MP4"}}

\* the hash file-loader computes of the file's content
ContentHash(content) ==
    CASE content = "bytes-1" -> "0f3a9c"
      [] content = "bytes-2" -> "b71e42"

Dots(s) == {i \in 1..Len(s) : Char(s, i) = "."}

LastDot(s) == CHOOSE i \in Dots(s) : \A j \in Dots(s) : j <= i

\* [name]: the file's name without its extension
BaseName(file) ==
    IF Dots(file) = {} THEN file ELSE SubSeq(file, 1, LastDot(file) - 1)

\* [ext]: the file's extension without the dot
ExtName(file) ==
    IF Dots(file) = {} THEN "" ELSE SubSeq(file, LastDot(file) + 1, Len(file))

\* the name template with [name], [hash] and [ext] replaced
RECURSIVE InterpolateName(_, _, _)
InterpolateName(template, file, content) ==
    IF template = "" THEN ""
    ELSE IF StartsWith(template, "[name]")
         THEN BaseName(file) \o InterpolateName(SubSeq(template, 7, Len(template)), file, content)
    ELSE IF StartsWith(template, "[hash]")
         THEN ContentHash(content) \o InterpolateName(SubSeq(template, 7, Len(template)), file, content)
    ELSE IF StartsWith(template, "[ext]")
         THEN ExtName(file) \o InterpolateName(SubSeq(template, 6, Len(template)), file, content)
    ELSE Head(template) \o InterpolateName(Tail(template), file, content)

\* what file-loader emits: the output path, and the URL under the public path
FileLoaderEmit(options, file, content) ==
    LET url == InterpolateName(options.name, file, content)
    IN  [outputPath |-> url,
         publicUrl  |-> IF EndsWith(options.publicPath, "/")
                        THEN options.publicPath \o url
                        ELSE options.publicPath \o "/" \o url]

RuleApplies(rule, file) == RegExpTest(rule.test, file)

\* the loaders of the rules that apply, in rule order
RECURSIVE Uses(_, _)
Uses(rules, file) ==
    IF rules = <<>> THEN <<>>
    ELSE (IF RuleApplies(Head(rules), file) THEN Head(rules).use ELSE <<>>)
         \o Uses(Tail(rules), file)

RECURSIVE Emitted(_, _, _)
Emitted(uses, file, content) ==
    IF uses = <<>> THEN <<>>
    ELSE (IF Head(uses).loader = "file-loader"
          THEN <<FileLoaderEmit(Head(uses).options, file, content)>>
          ELSE <<>>)
         \o Emitted(Tail(uses), file, content)

LoaderNames(uses) == [i \in DOMAIN uses |-> uses[i].loader]

---------------------------------------------------------------------------
(* module.exports = withBundleAnalyzer({...}): the members of the exported *)
(* object in a process whose ANALYZE is e.  The wrapper hands redirects    *)
(* through and calls the webpack customisation on the config it is given.  *)

exportedRedirects(e) == redirects

\* mutant: the customisation skipped when the analyzer is enabled
exportedWebpackAnalyzeSkips(e, cfg, dev, isServer) ==
    IF AnalyzeEnabled(e) THEN cfg ELSE webpack(cfg, dev, isServer)

exportedWebpack(e, cfg, dev, isServer) == webpack(cfg, dev, isServer)

---------------------------------------------------------------------------
(* State machine *)

Init ==
    /\ env \in EnvValues
    /\ analyzerEnabled = AnalyzeEnabled(env)
    /\ routes = <<>>
    /\ config \in BaseConfigs
    /\ calls = 0
    /\ last = [op |-> "load"]

\* the routing layer calls redirects() and keeps what it returns
LoadCustomRoutes ==
    /\ routes' = exportedRedirects(env)
    /\ last' = [op |-> "redirects", returned |-> exportedRedirects(env)]
    /\ UNCHANGED <<env, analyzerEnabled, config, calls>>

\* a request is answered from the loaded table
Request(path) ==
    /\ routes # <<>>
    /\ last' = [op       |-> "request",
                path     |-> path,
                response |-> Respond(routes, path),
                hops     |-> 0]
    /\ UNCHANGED <<env, analyzerEnabled, routes, config, calls>>

\* the client follows the redirect it was answered with; should the
\* destination's host be served by this table too, its path is looked up
Follow ==
    /\ last.op = "request"
    /\ last.response.kind = "redirect"
    /\ last.hops < MaxHops
    /\ LET path == UrlPath(last.response.location)
       IN  last' = [op       |-> "request",
                    path     |-> path,
                    response |-> Respond(routes, path),
                    hops     |-> last.hops + 1]
    /\ UNCHANGED <<env, analyzerEnabled, routes, config, calls>>

\* the framework starts a compilation with a config object of its own
NewCompilation(base) ==
    /\ config' = base
    /\ calls' = 0
    /\ last' = [op |-> "compilation"]
    /\ UNCHANGED <<env, analyzerEnabled, routes>>

\* the framework calls webpack(config, {dev, isServer})
Customise(dev, isServer) ==
    /\ calls < MaxCalls
    /\ config' = exportedWebpack(env, config, dev, isServer)
    /\ calls' = calls + 1
    /\ last' = [op |-> "webpack", dev |-> dev, isServer |-> isServer]
    /\ UNCHANGED <<env, analyzerEnabled, routes>>

\* the compilation processes a file under the customised config
Asset(file, content) ==
    /\ calls >= 1
    /\ LET uses == Uses(config.rules, file)
       IN  last' = [op      |-> "asset",
                    file    |-> file,
                    content |-> content,
                    loaders |-> LoaderNames(uses),
                    emitted |-> Emitted(uses, file, content)]
    /\ UNCHANGED <<env, analyzerEnabled, routes, config, calls>>

Next ==
    \/ LoadCustomRoutes
    \/ \E path \in RequestPaths : Request(path)
    \/ Follow
    \/ \E base \in BaseConfigs : NewCompilation(base)
    \/ \E dev \in BOOLEAN, isServer \in BOOLEAN : Customise(dev, isServer)
    \/ \E a \in Assets : Asset(a.file, a.content)

Spec == Init /\ [][Next]_vars

---------------------------------------------------------------------------
(* Properties *)

IsRedirectTo(response, destination) ==
    /\ response.kind = "redirect"
    /\ response.location = destination

\* C1: redirects() returns eight entries, and a request whose path is an
\* entry's source is answered with a permanent redirect whose target is that
\* entry's destination string, unchanged.
C1_SourceRedirectsToOwnDestination ==
    /\ last.op = "redirects" => Len(last.returned) = 8
    /\ last.op = "request" =>
          \A i \in 1..Len(redirects) :
              last.path = redirects[i].source =>
                  /\ IsRedirectTo(last.response, redirects[i].destination)
                  /\ last.response.permanent

C1_Witness ==
    /\ last.op = "request"
    /\ last.path = "/blog/entity-framework-query-filters-per-request-configuration"
    /\ last.response.kind = "redirect"
    /\ last.response.location =
          "https://minimalizt.dev/blog/entity-framework-query-filters-per-request-configuration/"

\* C2: the analyzer is enabled exactly when ANALYZE was the string "true" at
\* load; "TRUE", "1", the empty string and an absent variable leave it disabled.
C2_AnalyzerEnabledIffTrue ==
    /\ env = Str("true") => analyzerEnabled
    /\ env \in {Undefined, Str("TRUE"), Str("1"), Str("")} => ~analyzerEnabled
    /\ analyzerEnabled => env.defined /\ env.value = "true"

C2_Witness == analyzerEnabled /\ env = Str("true") /\ last.op # "load"

ReactKeys == {"react", "react-dom", "react/jsx-runtime.js", "react-dom/test-utils"}

\* C3: after a customisation with dev = false and isServer = false the four
\* react aliases hold their preact replacements; a customisation with
\* dev = true neither sets nor changes any of the four.
C3_PreactOnlyInClientProduction ==
    /\ [](last.op = "webpack" /\ ~last.dev /\ ~last.isServer =>
             /\ ReactKeys \subseteq DOMAIN config.alias
             /\ config.alias["react"] = "preact/compat"
             /\ config.alias["react-dom"] = "preact/compat"
             /\ config.alias["react/jsx-runtime.js"] = "preact/compat/jsx-runtime"
             /\ config.alias["react-dom/test-utils"] = "preact/test-utils")
    /\ [][last'.op = "webpack" /\ last'.dev =>
             \A k \in ReactKeys :
                 /\ k \in DOMAIN config'.alias <=> k \in DOMAIN config.alias
                 /\ k \in DOMAIN config.alias => config'.alias[k] = config.alias[k]]_vars

C3_Witness ==
    /\ last.op = "webpack" /\ ~last.dev /\ ~last.isServer
    /\ "react" \in DOMAIN config.alias
    /\ config.alias["react"] = "preact/compat"

Applied(loader) == \E k \in 1..Len(last.loaders) : last.loaders[k] = loader

ImageExtensions == {"png", "jpg", "jpeg", "gif"}

\* C4: a file whose name ends in .png, .jpg, .jpeg or .gif is matched by the
\* file-loader rule and emitted as static/media/<name>.<hash>.<ext>, with
\* <hash> the hash of its content, under the public path /_next.
C4_ImagesEmittedAsHashedStaticMedia ==
    last.op = "asset" =>
        \A e \in ImageExtensions :
            EndsWith(last.file, "." \o e) =>
                LET name == SubSeq(last.file, 1, Len(last.file) - Len(e) - 1)
                    path == "static/media/" \o name \o "." \o ContentHash(last.content) \o "." \o e
                IN  /\ Applied("file-loader")
                    /\ last.emitted # <<>>
                    /\ \A k \in 1..Len(last.emitted) :
                           /\ last.emitted[k].outputPath = path
                           /\ last.emitted[k].publicUrl = "/_next/" \o path

C4_Witness ==
    /\ last.op = "asset"
    /\ last.file = "photo.jpeg"
    /\ last.emitted # <<>>
    /\ last.emitted[1].outputPath = "static/media/photo.0f3a9c.jpeg"

\* C5: a file whose name ends in .svg is handled by @svgr/webpack and by no
\* file-loader rule, and nothing is emitted for it; no file is matched by
\* both of the added rules.
C5_SvgToComponentOnly ==
    last.op = "asset" =>
        /\ EndsWith(last.file, ".svg") =>
               /\ Applied("@svgr/webpack")
               /\ ~Applied("file-loader")
               /\ last.emitted = <<>>
        /\ ~(Applied("@svgr/webpack") /\ Applied("file-loader"))

C5_Witness ==
    /\ last.op = "asset"
    /\ last.file = "logo.png.svg"
    /\ last.loaders = <<"@svgr/webpack">>
    /\ last.emitted = <<>>

HasScheme(u) ==
    \E i \in 2..Len(u) :
        /\ OccursAt(u, "://", i)
        /\ \A k \in 1..(i - 1) : Char(u, k) \in DOMAIN ToUpperCase

\* the host of an absolute URL: what follows :// up to the next /
HasHost(u) ==
    \E i \in 2..Len(u) :
        /\ OccursAt(u, "://", i)
        /\ i + 3 <= Len(u)
        /\ Char(u, i + 3) \notin {"/", "?", "#", ":"}

\* C6: every entry of the table redirects() returns is permanent, has an
\* absolute URL (scheme and host) as destination and a site-relative path
\* beginning with / as source.
C6_EntriesPermanentAbsolute ==
    last.op = "redirects" =>
        /\ last.returned = routes
        /\ \A i \in 1..Len(last.returned) :
               /\ last.returned[i].permanent = TRUE
               /\ HasScheme(last.returned[i].destination)
               /\ HasHost(last.returned[i].destination)
               /\ StartsWith(last.returned[i].source, "/")
               /\ ~HasScheme(last.returned[i].source)

C6_Witness ==
    /\ last.op = "redirects"
    /\ Len(routes) = 8
    /\ routes[8].permanent
    /\ StartsWith(routes[8].destination, "https://minimalizt.dev/")

FileLoaderExtensions == {".png", ".jpg", ".jpeg", ".gif", ".mp4"}

ToLowerCase ==
    [c \in {Char(UpperCase, i) : i \in 1..Len(UpperCase)} |->
        Char(LowerCase, CHOOSE i \in 1..Len(UpperCase) : Char(UpperCase, i) = c)]

RECURSIVE LowerCased(_)
LowerCased(s) ==
    IF s = "" THEN ""
    ELSE (IF Head(s) \in DOMAIN ToLowerCase THEN ToLowerCase[Head(s)] ELSE Head(s))
         \o LowerCased(Tail(s))

\* C7 as stated: a file is matched by the file-loader rule exactly when its
\* name ends in .png, .jpg, .jpeg, .gif or .mp4.
C7_Original ==
    last.op = "asset" =>
        (Applied("file-loader") <=> \E e \in FileLoaderExtensions : EndsWith(last.file, e))

\* C7, amended: a file is matched by the file-loader rule, and emitted as
\* hashed static media, exactly when its name ends in .png, .jpg, .jpeg, .gif
\* or .mp4 written in any letter case.
C7_FileLoaderExtensionsAnyCase ==
    last.op = "asset" =>
        LET listed == \E e \in FileLoaderExtensions : EndsWith(LowerCased(last.file), e)
        IN  /\ Applied("file-loader") <=> listed
            /\ last.emitted # <<>> <=> listed
            /\ \A k \in 1..Len(last.emitted) :
                   /\ StartsWith(last.emitted[k].outputPath, "static/media/")
                   /\ Contains(last.emitted[k].outputPath, "." \o ContentHash(last.content) \o ".")

C7_Witness ==
    /\ last.op = "asset"
    /\ last.file = "clip.MP4"
    /\ Applied("file-loader")
    /\ last.emitted # <<>>
    /\ last.emitted[1].outputPath = "static/media/clip.b71e42.MP4"

---------------------------------------------------------------------------
(* The table in any order: the routing layer holds a permutation of the    *)
(* entries redirects() returns and answers requests from it.               *)

Permuted(table, pi) == [i \in 1..Len(table) |-> table[pi[i]]]

TableOrders == {Permuted(redirects, pi) : pi \in Permutations(1..Len(redirects))}

InitAnyOrder ==
    /\ env = Undefined
    /\ analyzerEnabled = AnalyzeEnabled(env)
    /\ routes \in TableOrders
    /\ config = [rules |-> <<>>, alias |-> NoAliases]
    /\ calls = 0
    /\ last = [op |-> "load"]

\* every source of the table, and two paths that are no entry's source
AnyOrderPaths == Sources \cup {"/blog", redirects[1].source \o "/"}

NextAnyOrder == \E path \in AnyOrderPaths : Request(path)

SpecAnyOrder == InitAnyOrder /\ [][NextAnyOrder]_vars

SameResponse(a, b) ==
    /\ a.kind = b.kind
    /\ a.kind = "redirect" =>
           /\ a.location = b.location
           /\ a.permanent = b.permanent

\* C8: the sources of the table are pairwise distinct, so at most one entry
\* matches a request path and, whatever the order of the entries, the
\* request is answered as it is under the order redirects() returns.
C8_LookupIndependentOfOrder ==
    /\ \A i, j \in 1..Len(routes) : i # j => routes[i].source # routes[j].source
    /\ last.op = "request" =>
           /\ Cardinality(Matching(routes, last.path)) <= 1
           /\ SameResponse(last.response, Respond(redirects, last.path))

C8_Witness ==
    /\ last.op = "request"
    /\ routes[8] = redirects[1]
    /\ routes[1] = redirects[8]
    /\ last.path = redirects[1].source
    /\ last.response.kind = "redirect"
    /\ last.response.location = redirects[1].destination

\* C10: a request whose path is no entry's source gets no redirect: the
\* table contributes nothing and handling falls through to the framework's
\* own routing.
C10_UnmatchedPathFallsThrough ==
    last.op = "request" /\ last.path \notin Sources =>
        /\ last.response.kind = "next"
        /\ DOMAIN last.response = {"kind"}
        /\ Matching(routes, last.path) = {}

C10_Witness ==
    /\ last.op = "request"
    /\ last.path = "/blog/openid-connect-dotnet-50"
    /\ last.path \notin Sources
    /\ last.response.kind = "next"


\* C11: over the four combinations of (dev, isServer) the customisation
\* writes the preact aliases only for (false, false); for the other three,
\* a production server build among them, config.resolve.alias is left as
\* it was.
C11_PreactIffClientProduction ==
    [][last'.op = "webpack" =>
          IF ~last'.dev /\ ~last'.isServer
          THEN /\ ReactKeys \subseteq DOMAIN config'.alias
               /\ \A k \in ReactKeys : config'.alias[k] = PreactAliases[k]
               /\ config'.alias["react"] = "preact/compat"
          ELSE config'.alias = config.alias]_vars

C11_Witness ==
    /\ last.op = "webpack" /\ ~last.dev /\ last.isServer
    /\ "react" \in DOMAIN config.alias
    /\ config.alias["react"] = "/app/node_modules/react"


C15_OneHop ==
    /\ last.op = "redirects" =>
           \A i \in 1..Len(last.returned) :
               /\ UrlHost(last.returned[i].destination) = "minimalizt.dev"
               /\ Lookup(last.returned, last.returned[i].destination) = 0
               /\ Lookup(last.returned, UrlPath(last.returned[i].destination)) = 0
    /\ last.op = "request" =>
           /\ last.hops <= 1
           /\ last.hops = 1 => last.response.kind = "next"

C15_Witness ==
    /\ last.op = "request"
    /\ last.hops = 1
    /\ last.path = "/blog/set-up-automapper-dotnet-core/"
    /\ last.response.kind = "next"


\* C16: every entry's destination is https://minimalizt.dev followed by the
\* entry's source followed by /, so source and destination carry the same
\* slug.
C16_DestinationKeepsPath ==
    last.op = "redirects" =>
        \A i \in 1..Len(last.returned) :
            /\ last.returned[i].destination =
                   "https://minimalizt.dev" \o last.returned[i].source \o "/"
            /\ UrlPath(last.returned[i].destination) = last.returned[i].source \o "/"

C16_Witness ==
    /\ last.op = "redirects"
    /\ last.returned[6].source = "/blog/openid-connect-dotnet-5"
    /\ last.returned[6].destination = "https://minimalizt.dev/blog/openid-connect-dotnet-5/"

\* the slug of a post file: its name without .mdx
Slug(file) == SubSeq(file, 1, Len(file) - Len(".mdx"))

\* C17: for each named post file <slug>.mdx under data/blog the table has an
\* entry whose source is /blog/<slug>.
C17_PostFilesCovered ==
    last.op = "redirects" =>
        \A f \in BlogPostFiles :
            /\ EndsWith(f, ".mdx")
            /\ \E i \in 1..Len(last.returned) :
                   last.returned[i].source = "/blog/" \o Slug(f)

C17_Witness ==
    /\ last.op = "redirects"
    /\ "set-up-automapper-dotnet-core.mdx" \in BlogPostFiles
    /\ last.returned[7].source = "/blog/" \o Slug("set-up-automapper-dotnet-core.mdx")


\* C18: the file-loader rule matches its five extensions in any letter case;
\* the svg rule matches .svg in lower case only, so a file named with .SVG or
\* .Svg is handled by neither of the two added rules: no component, nothing
\* emitted.
C18_CaseOfExtensions ==
    last.op = "asset" =>
        /\ (\E e \in FileLoaderExtensions : EndsWith(LowerCased(last.file), e))
               => Applied("file-loader")
        /\ Applied("@svgr/webpack") <=> EndsWith(last.file, ".svg")
        /\ EndsWith(LowerCased(last.file), ".svg") /\ ~EndsWith(last.file, ".svg") =>
               /\ ~Applied("@svgr/webpack")
               /\ ~Applied("file-loader")
               /\ last.emitted = <<>>

C18_Witness ==
    /\ last.op = "asset"
    /\ last.file = "icon.Svg"
    /\ ~Applied("@svgr/webpack")
    /\ ~Applied("file-loader")
    /\ last.emitted = <<>>

====
